---- MODULE Spec2Model ----
(***************************************************************************)
(* rareflow.datasets.movielens: fetch_data and the generator chain behind  *)
(* it (_read_archive_data -> _parse_line -> _make_contiguous ->            *)
(* _get_users_items / _build_interactions_matrix -> Dataset).              *)
(*                                                                         *)
(* A line of the archive entry is a sequence of tokens: an integer         *)
(* literal, a word (text that int() rejects), a byte sequence that is not  *)
(* UTF-8, or one of the separators tab, "::" and ",".  str.split, int()    *)
(* and the tuple unpacking of _parse_line are computed on these tokens.    *)
(* One step of the model is one pull of the consumer's for loop through    *)
(* the whole generator chain.                                              *)
(***************************************************************************)
EXTENDS Integers, Sequences, FiniteSets

VARIABLES
    name,        \* fetch_data argument: the corpus name
    min_rating,  \* fetch_data argument
    entry_sep,   \* the separator the archive entry is written with
    archive,     \* the archive entry: one descriptor <<kind, u, i, r, ts>> per line
    pc,          \* "start" | "discover" | "fill" | "done" | "raised"
    handle,      \* handle[k]: archive handle of the k-th traversal's reader
    pos,         \* lines the current reader has read from the entry
    user_map,    \* _make_contiguous: user_map of the current traversal
    item_map,    \* _make_contiguous: item_map of the current traversal
    out,         \* records the current corpus generator has yielded
    uids,        \* _get_users_items: uids
    iids,        \* _get_users_items: iids
    shape,       \* (num_users, num_items) as fetch_data unpacks it
    mat,         \* _build_interactions_matrix: mat
    result,      \* the Dataset fetch_data returned, if any
    err,         \* the exception fetch_data raised, if any
    err_pos,     \* the line the exception was raised at (0: at no line)
    d_out,       \* history: the records the shape-discovery traversal yielded
    d_user_map,  \* history: user_map at the end of shape discovery
    d_item_map,  \* history: item_map at the end of shape discovery
    prev,        \* history: summary of the previous fetch_data call
    calls        \* number of fetch_data calls made so far

vars == <<name, min_rating, entry_sep, archive, pc, handle, pos, user_map, item_map, out,
          uids, iids, shape, mat, result, err, err_pos, d_out, d_user_map,
          d_item_map, prev, calls>>

----------------------------------------------------------------------------
(* Bounds of the model *)

MaxLines == 2
MaxUserKey == 2
MaxCalls == 2

\* raw user keys, raw item keys, ratings and timestamps that occur in the lines.
\* Raw keys are positive, as MovieLens ids are: a raw key 0 would reach
\* lil_matrix as the index -1, whose handling lies in scipy, not in this code.
\* The min_rating values lie below, between and above the ratings.
UserKeys == 1..MaxUserKey
ItemKeys == {1, 2}
Ratings == {3, 5}
Stamps == {9}
MinRatings == {0, 4, 6}

----------------------------------------------------------------------------
(* Tokens and lines *)

Separators == {"tab", "::", ","}

IntTok(n) == [t |-> "int", v |-> n]
WordTok == [t |-> "word", v |-> 0]
BadTok == [t |-> "bad", v |-> 0]
SepTok(s) == [t |-> s, v |-> 0]

OkLine(s, u, i, r, ts) ==
    <<IntTok(u), SepTok(s), IntTok(i), SepTok(s), IntTok(r), SepTok(s), IntTok(ts)>>
ShortLine(s) == <<IntTok(1), SepTok(s), IntTok(1), SepTok(s), IntTok(5)>>
WordLine(s) ==
    <<IntTok(1), SepTok(s), IntTok(1), SepTok(s), WordTok, SepTok(s), IntTok(9)>>
BadBytesLine == <<BadTok>>
HeaderLine(s) ==
    <<WordTok, SepTok(s), WordTok, SepTok(s), WordTok, SepTok(s), WordTok>>

\* the text of the line a descriptor stands for, in an entry written with s
TextOf(d, s) ==
    CASE d[1] = "data" -> OkLine(s, d[2], d[3], d[4], d[5])
      [] d[1] = "short" -> ShortLine(s)
      [] d[1] = "word" -> WordLine(s)
      [] d[1] = "bytes" -> BadBytesLine
      [] d[1] = "header" -> HeaderLine(s)

DataLines ==
    {<<"data", u, i, r, ts>> : u \in UserKeys, i \in ItemKeys, r \in Ratings, ts \in Stamps}

Lines == DataLines \cup {<<k, 0, 0, 0, 0>> : k \in {"short", "word", "bytes"}}

Header == <<"header", 0, 0, 0, 0>>

RECURSIVE SeqsOver(_, _)
SeqsOver(S, n) ==
    IF n = 0 THEN {<<>>}
    ELSE LET shorter == SeqsOver(S, n - 1)
         IN  shorter \cup {Append(q, x) : q \in {p \in shorter : Len(p) = n - 1}, x \in S}

\* the entries fetch_data is run on: a header line, if any, is the first line
Archives ==
    LET tails == SeqsOver(Lines, MaxLines - 1)
    IN  {<<>>} \cup {<<first>> \o rest : first \in Lines \cup {Header}, rest \in tails}

----------------------------------------------------------------------------
(* The corpus table *)

CORPUS_100K == "movielens_100K"
CORPUS_1M == "movielens_1M"
CORPUS_10M == "movielens_10M"
CORPUS_20M == "movielens_20M"

MOVIELENS_GENERATORS == {CORPUS_100K, CORPUS_1M, CORPUS_10M, CORPUS_20M}

Names == MOVIELENS_GENERATORS \cup {"movielens_999K"}

\* the separator each corpus generator passes to _parse_line
Separator(n) == IF n = CORPUS_100K THEN "tab" ELSE "::"

\* whether the corpus generator wraps the reader in _make_contiguous
Contiguous(n) == n # CORPUS_100K

\* itertools.islice(reader, 1, None) in the 20M generator
HeaderSkip(n) == IF n = CORPUS_20M THEN 1 ELSE 0

\* the separator the entry of each corpus is physically written with
FileSeps(n) == IF n = CORPUS_20M THEN {",", "::"} ELSE {Separator(n)}

----------------------------------------------------------------------------
(* _read_archive_data, _parse_line, _make_contiguous *)

\* line.decode('utf-8') succeeds
Decodable(line) == \A k \in 1..Len(line) : line[k].t # "bad"

\* line.split(separator): the fields between the occurrences of the separator
RECURSIVE SplitFrom(_, _, _, _)
SplitFrom(line, sep, k, fields) ==
    IF k > Len(line) THEN fields
    ELSE IF line[k].t = sep
         THEN SplitFrom(line, sep, k + 1, Append(fields, <<>>))
         ELSE SplitFrom(line, sep, k + 1,
                        [fields EXCEPT ![Len(fields)] = Append(@, line[k])])

Split(line, sep) == SplitFrom(line, sep, 1, <<(<<>>)>>)

\* int(field) succeeds: the field is one integer literal
IsInt(field) == Len(field) = 1 /\ field[1].t = "int"

NoRecord == <<0, 0, 0, 0>>

ParseLineKeyHalved(line, sep) ==
    LET fields == Split(line, sep)
    IN  IF Len(fields) # 4
        THEN [ok |-> FALSE, error |-> "ValueError:unpack", rec |-> NoRecord]
        ELSE IF \E k \in 1..4 : ~IsInt(fields[k])
        THEN [ok |-> FALSE, error |-> "ValueError:int", rec |-> NoRecord]
        ELSE [ok |-> TRUE, error |-> "",
              rec |-> <<(fields[1][1].v - 1) \div 2, (fields[2][1].v - 1) \div 2,
                        fields[3][1].v, fields[4][1].v>>]

ParseLineLenient(line, sep) ==
    LET fields == Split(line, sep)
    IN  IF Len(fields) # 4 \/ \E k \in 1..4 : ~IsInt(fields[k])
        THEN [ok |-> TRUE, error |-> "", rec |-> <<0, 0, 0, 0>>]
        ELSE [ok |-> TRUE, error |-> "",
              rec |-> <<fields[1][1].v - 1, fields[2][1].v - 1,
                        fields[3][1].v, fields[4][1].v>>]

\* uid, iid, rating, timestamp = line.split(separator)
\* return int(uid) - 1, int(iid) - 1, int(rating), int(timestamp)
ParseLine(line, sep) ==
    LET fields == Split(line, sep)
    IN  IF Len(fields) # 4
        THEN [ok |-> FALSE, error |-> "ValueError:unpack", rec |-> NoRecord]
        ELSE IF \E k \in 1..4 : ~IsInt(fields[k])
        THEN [ok |-> FALSE, error |-> "ValueError:int", rec |-> NoRecord]
        ELSE [ok |-> TRUE, error |-> "",
              rec |-> <<fields[1][1].v - 1, fields[2][1].v - 1,
                        fields[3][1].v, fields[4][1].v>>]

EmptyMap == [k \in {} |-> 0]

SetDefaultOverwrite(map, key) ==
    [k \in DOMAIN map \cup {key} |->
        IF k = key THEN Cardinality(DOMAIN map) ELSE map[k]]

\* map.setdefault(key, len(map)): the map afterwards
SetDefault(map, key) ==
    IF key \in DOMAIN map THEN map
    ELSE [k \in DOMAIN map \cup {key} |->
            IF k = key THEN Cardinality(DOMAIN map) ELSE map[k]]

\* the record a corpus generator yields for a parsed record, under the maps
\* as they are after the setdefault calls
Yield(n, rec, um, im) ==
    IF Contiguous(n) THEN <<um[rec[1]], im[rec[2]], rec[3], rec[4]>> ELSE rec

----------------------------------------------------------------------------
(* _get_users_items, _build_interactions_matrix, Dataset *)

Max(S) == CHOOSE x \in S : \A y \in S : y <= x

\* sp.lil_matrix((rows, cols), dtype=np.int32)
LilMatrix(rows, cols) == [c \in (0..(rows - 1)) \X (0..(cols - 1)) |-> 0]

ThresholdMetInverted(rating, m) == rating <= m

\* rating >= min_rating
ThresholdMet(rating, m) == rating >= m

\* mat.tocoo(): the shape and the (row, col, data) triples of the stored entries
Tocoo(m, sh) ==
    [shape |-> sh, entries |-> {<<c[1], c[2], m[c]>> : c \in {d \in DOMAIN m : m[d] # 0}}]

NoDataset ==
    [built |-> FALSE, name |-> "", user_ids |-> {}, item_ids |-> {},
     interactions |-> [shape |-> <<0, 0>>, entries |-> {}]]

Dataset(n, user_ids, item_ids, interactions) ==
    [built |-> TRUE, name |-> n, user_ids |-> user_ids, item_ids |-> item_ids,
     interactions |-> interactions]

NumUsers(d) == Cardinality(d.user_ids)
NumItems(d) == Cardinality(d.item_ids)
\* self._interactions.count_nonzero()
NumInteractions(d) == Cardinality({e \in d.interactions.entries : e[3] # 0})

\* the value of the coordinate-list matrix at (u, i)
Cell(d, u, i) ==
    IF \E e \in d.interactions.entries : e[1] = u /\ e[2] = i
    THEN (CHOOSE e \in d.interactions.entries : e[1] = u /\ e[2] = i)[3]
    ELSE 0

NoPrev == [made |-> FALSE, min_rating |-> 0, num_users |-> 0, num_items |-> 0,
           num_interactions |-> 0]

----------------------------------------------------------------------------
(* Initial state: the arguments of fetch_data and the archive entry *)

NoHandles == <<"none", "none">>

Init ==
    /\ name \in Names
    /\ min_rating \in MinRatings
    /\ entry_sep \in FileSeps(name)
    /\ archive \in IF name \in MOVIELENS_GENERATORS THEN Archives ELSE {<<>>}
    /\ pc = "start"
    /\ handle = NoHandles
    /\ pos = 0
    /\ user_map = EmptyMap
    /\ item_map = EmptyMap
    /\ out = <<>>
    /\ uids = {}
    /\ iids = {}
    /\ shape = <<0, 0>>
    /\ mat = LilMatrix(0, 0)
    /\ result = NoDataset
    /\ err = ""
    /\ err_pos = 0
    /\ d_out = <<>>
    /\ d_user_map = EmptyMap
    /\ d_item_map = EmptyMap
    /\ prev = NoPrev
    /\ calls = 1

----------------------------------------------------------------------------
(* fetch_data *)

inputs == <<name, entry_sep, archive>>

\* the k-th line of the entry, as the reader finds it
Line(k) == TextOf(archive[k], entry_sep)
traversal == <<pos, user_map, item_map, out>>
discovered == <<uids, iids, shape, d_out, d_user_map, d_item_map>>
history == <<prev, calls>>

\* the traversal the call is in: 1 shape discovery, 2 fill
Phase == IF pc = "discover" THEN 1 ELSE 2

\* an exception leaves fetch_data; h is the state of the handles at that moment
Raise(e, at, h) ==
    /\ pc' = "raised"
    /\ err' = e
    /\ err_pos' = at
    /\ handle' = h

IsSupportedAlways(n) == TRUE

\* name in _MOVIELENS_GENERATORS
IsSupported(n) == n \in MOVIELENS_GENERATORS

\* if name not in _MOVIELENS_GENERATORS: raise ValueError(...); otherwise the
\* generator of the first traversal is looked up and created (it has not run yet)
CheckName ==
    /\ pc = "start"
    /\ IF ~IsSupported(name)
       THEN Raise("ValueError:unsupported", 0, handle)
       ELSE IF name \notin MOVIELENS_GENERATORS
       THEN Raise("KeyError", 0, handle)
       ELSE /\ pc' = "discover"
            /\ UNCHANGED <<err, err_pos, handle>>
    /\ UNCHANGED <<inputs, min_rating, traversal, discovered, mat, result, history>>

ResumeEntry(p) == p

\* a reader that has just opened the entry has handed out no line
StartOfEntry(p) == 0

\* the first pull on a corpus generator: _make_contiguous creates its maps and
\* _read_archive_data opens the archive and the entry
Open ==
    /\ pc \in {"discover", "fill"}
    /\ handle[Phase] = "none"
    /\ handle' = [handle EXCEPT ![Phase] = "open"]
    /\ pos' = StartOfEntry(pos)
    /\ user_map' = EmptyMap
    /\ item_map' = EmptyMap
    /\ out' = <<>>
    /\ UNCHANGED <<inputs, min_rating, pc, discovered, mat, result, err, err_pos, history>>

\* itertools.islice(..., 1, None): the first line is read from the reader (and
\* decoded) and dropped
SkipHeader ==
    /\ pc \in {"discover", "fill"}
    /\ handle[Phase] = "open"
    /\ pos < HeaderSkip(name)
    /\ pos < Len(archive)
    /\ IF Decodable(Line(pos + 1))
       THEN /\ pos' = pos + 1
            /\ UNCHANGED <<pc, err, err_pos, handle>>
       ELSE /\ Raise("UnicodeDecodeError", pos + 1, [handle EXCEPT ![Phase] = "closed"])
            /\ pos' = pos + 1
    /\ UNCHANGED <<inputs, min_rating, user_map, item_map, out, discovered, mat,
                   result, history>>

\* a line is there for the corpus generator to read
LineReady ==
    /\ handle[Phase] = "open"
    /\ pos < Len(archive)
    /\ pos >= HeaderSkip(name)

\* the reader is exhausted
Exhausted ==
    /\ handle[Phase] = "open"
    /\ pos = Len(archive)

\* one iteration of the loop of _get_users_items
DiscoverLine ==
    /\ pc = "discover"
    /\ LineReady
    /\ LET line == Line(pos + 1)
           p == ParseLine(line, Separator(name))
           um == IF Contiguous(name) THEN SetDefault(user_map, p.rec[1]) ELSE user_map
           im == IF Contiguous(name) THEN SetDefault(item_map, p.rec[2]) ELSE item_map
           rec == Yield(name, p.rec, um, im)
       IN  IF ~Decodable(line)
           THEN /\ Raise("UnicodeDecodeError", pos + 1, [handle EXCEPT ![1] = "closed"])
                /\ pos' = pos + 1
                /\ UNCHANGED <<user_map, item_map, out, uids, iids>>
           ELSE IF ~p.ok
           THEN /\ Raise(p.error, pos + 1, handle)
                /\ pos' = pos + 1
                /\ UNCHANGED <<user_map, item_map, out, uids, iids>>
           ELSE /\ pos' = pos + 1
                /\ user_map' = um
                /\ item_map' = im
                /\ out' = Append(out, rec)
                /\ uids' = uids \cup {rec[1]}
                /\ iids' = iids \cup {rec[2]}
                /\ UNCHANGED <<pc, err, err_pos, handle>>
    /\ UNCHANGED <<inputs, min_rating, shape, d_out, d_user_map, d_item_map, mat,
                   result, history>>

\* the loop of _get_users_items ends: the reader leaves its with blocks, the
\* arrays and the shape are computed, and _build_interactions_matrix is called
\* with a new generator and allocates mat
DiscoverEnd ==
    /\ pc = "discover"
    /\ Exhausted
    /\ IF uids = {} \/ iids = {}
       THEN /\ Raise("ValueError:max", 0, [handle EXCEPT ![1] = "closed"])
            /\ UNCHANGED <<shape, mat, d_out, d_user_map, d_item_map>>
       ELSE /\ shape' = <<Max(uids) + 1, Max(iids) + 1>>
            /\ mat' = LilMatrix(Max(uids) + 1, Max(iids) + 1)
            /\ d_out' = out
            /\ d_user_map' = user_map
            /\ d_item_map' = item_map
            /\ pc' = "fill"
            /\ handle' = [handle EXCEPT ![1] = "closed"]
            /\ UNCHANGED <<err, err_pos>>
    /\ UNCHANGED <<inputs, min_rating, traversal, uids, iids, result, history>>

\* one iteration of the loop of _build_interactions_matrix
FillLine ==
    /\ pc = "fill"
    /\ LineReady
    /\ LET line == Line(pos + 1)
           p == ParseLine(line, Separator(name))
           um == IF Contiguous(name) THEN SetDefault(user_map, p.rec[1]) ELSE user_map
           im == IF Contiguous(name) THEN SetDefault(item_map, p.rec[2]) ELSE item_map
           rec == Yield(name, p.rec, um, im)
       IN  IF ~Decodable(line)
           THEN /\ Raise("UnicodeDecodeError", pos + 1, [handle EXCEPT ![2] = "closed"])
                /\ pos' = pos + 1
                /\ UNCHANGED <<user_map, item_map, out, mat>>
           ELSE IF ~p.ok
           THEN /\ Raise(p.error, pos + 1, handle)
                /\ pos' = pos + 1
                /\ UNCHANGED <<user_map, item_map, out, mat>>
           ELSE IF ThresholdMet(rec[3], min_rating) /\ <<rec[1], rec[2]>> \notin DOMAIN mat
           THEN /\ Raise("IndexError", pos + 1, handle)
                /\ pos' = pos + 1
                /\ user_map' = um
                /\ item_map' = im
                /\ out' = Append(out, rec)
                /\ UNCHANGED mat
           ELSE /\ pos' = pos + 1
                /\ user_map' = um
                /\ item_map' = im
                /\ out' = Append(out, rec)
                /\ mat' = IF ThresholdMet(rec[3], min_rating)
                          THEN [mat EXCEPT ![<<rec[1], rec[2]>>] = 1]
                          ELSE mat
                /\ UNCHANGED <<pc, err, err_pos, handle>>
    /\ UNCHANGED <<inputs, min_rating, discovered, result, history>>

\* the loop of _build_interactions_matrix ends: the reader leaves its with
\* blocks, mat.tocoo() is returned and fetch_data returns the Dataset
FillEnd ==
    /\ pc = "fill"
    /\ Exhausted
    /\ handle' = [handle EXCEPT ![2] = "closed"]
    /\ result' = Dataset(name, uids, iids, Tocoo(mat, shape))
    /\ pc' = "done"
    /\ UNCHANGED <<inputs, min_rating, traversal, discovered, mat, err, err_pos, history>>

\* a reader generator left suspended by an exception raised outside it is
\* finalized once nothing refers to it any more; only then do its with blocks exit
Finalize ==
    /\ pc = "raised"
    /\ \E k \in 1..2 :
         /\ handle[k] = "open"
         /\ handle' = [handle EXCEPT ![k] = "closed"]
    /\ UNCHANGED <<inputs, min_rating, pc, traversal, discovered, mat, result, err,
                   err_pos, history>>

Summary(d, m) ==
    [made |-> TRUE, min_rating |-> m, num_users |-> NumUsers(d),
     num_items |-> NumItems(d), num_interactions |-> NumInteractions(d)]

\* the caller calls fetch_data again for the same corpus on the same archive,
\* with the same or a higher min_rating
CallAgain ==
    /\ pc = "done"
    /\ calls < MaxCalls
    /\ calls' = calls + 1
    /\ prev' = Summary(result, min_rating)
    /\ min_rating' \in {m \in MinRatings : m >= min_rating}
    /\ pc' = "start"
    /\ handle' = NoHandles
    /\ pos' = 0
    /\ user_map' = EmptyMap
    /\ item_map' = EmptyMap
    /\ out' = <<>>
    /\ uids' = {}
    /\ iids' = {}
    /\ shape' = <<0, 0>>
    /\ mat' = LilMatrix(0, 0)
    /\ result' = NoDataset
    /\ d_out' = <<>>
    /\ d_user_map' = EmptyMap
    /\ d_item_map' = EmptyMap
    /\ UNCHANGED <<inputs, err, err_pos>>

Next ==
    \/ CheckName
    \/ Open
    \/ SkipHeader
    \/ DiscoverLine
    \/ DiscoverEnd
    \/ FillLine
    \/ FillEnd
    \/ Finalize
    \/ CallAgain

Spec == Init /\ [][Next]_vars

----------------------------------------------------------------------------
(* What the claims speak of, read off the archive entry itself *)

\* the lines after the header the corpus generator skips
DataRange == (HeaderSkip(name) + 1)..Len(archive)

\* line k is four integer fields written with the separator sep
FourIntFields(k, sep) == archive[k][1] = "data" /\ entry_sep = sep

RawUser(k) == archive[k][2]
RawItem(k) == archive[k][3]
RawRating(k) == archive[k][4]
RawStamp(k) == archive[k][5]

\* the data lines the current traversal has read, as positions in the entry
ReadSoFar == [k \in 1..(IF pos > HeaderSkip(name) THEN pos - HeaderSkip(name) ELSE 0)
                 |-> HeaderSkip(name) + k]

\* the distinct values of f over the positions ks, in first-seen order
RECURSIVE FirstSeen(_, _, _)
FirstSeen(f, ks, acc) ==
    IF ks = <<>> THEN acc
    ELSE LET x == f[Head(ks)]
         IN  FirstSeen(f, Tail(ks),
                       IF \E n \in 1..Len(acc) : acc[n] = x THEN acc ELSE Append(acc, x))

UserColumn == [k \in 1..Len(archive) |-> RawUser(k)]
ItemColumn == [k \in 1..Len(archive) |-> RawItem(k)]

\* N - 1 for the N-th entry x of order
Rank(order, x) == (CHOOSE n \in 1..Len(order) : order[n] = x) - 1

Range(q) == {q[n] : n \in 1..Len(q)}

InTraversal == pc \in {"discover", "fill", "done"}

----------------------------------------------------------------------------
(* C2 *)

C2_MapIs(map, order) ==
    /\ DOMAIN map = {x - 1 : x \in Range(order)}
    /\ \A n \in 1..Len(order) : map[order[n] - 1] = n - 1

C2_Maps ==
    (InTraversal /\ Contiguous(name)) =>
        /\ C2_MapIs(user_map, FirstSeen(UserColumn, ReadSoFar, <<>>))
        /\ C2_MapIs(item_map, FirstSeen(ItemColumn, ReadSoFar, <<>>))
        /\ Len(out) = Len(ReadSoFar)
        /\ \A k \in 1..Len(out) :
             /\ out[k][3] = RawRating(ReadSoFar[k])
             /\ out[k][4] = RawStamp(ReadSoFar[k])

C2_Kept(map, mapn) == \A k \in DOMAIN map : k \in DOMAIN mapn /\ mapn[k] = map[k]

C2_Stable ==
    (pc \in {"discover", "fill"} /\ pos' = pos + 1) =>
        (C2_Kept(user_map, user_map') /\ C2_Kept(item_map, item_map'))

\* C2: in one pass of _make_contiguous, after every prefix of the input, the
\* user map and the item map send the N-th distinct raw key seen to N - 1 (a
\* bijection onto 0..k-1); reading a further line never changes the index of a
\* key already assigned; every yielded record carries the rating and the
\* timestamp of its line.
C2_FirstSeenOrder == [](C2_Maps) /\ [][C2_Stable]_vars

\* a second line repeats the user key of the first under another item key
C2_Witness ==
    /\ pc = "discover" /\ Contiguous(name) /\ Len(out) = 2
    /\ RawUser(ReadSoFar[1]) = RawUser(ReadSoFar[2])
    /\ RawItem(ReadSoFar[1]) # RawItem(ReadSoFar[2])
    /\ out[1][1] = out[2][1]
    /\ out[2][2] = 1

----------------------------------------------------------------------------
(* C10 *)

C10_Unadjusted(n) ==
    LET ks == SubSeq(ReadSoFar, 1, n)
    IN  <<Rank(FirstSeen(UserColumn, ks, <<>>), RawUser(ReadSoFar[n])),
          Rank(FirstSeen(ItemColumn, ks, <<>>), RawItem(ReadSoFar[n])),
          RawRating(ReadSoFar[n]), RawStamp(ReadSoFar[n])>>

\* C10: for the corpora that go through _make_contiguous, the stream it yields
\* with the keys _parse_line lowered by one is the stream it would yield with
\* the raw keys given to the maps as they are.
C10_AdjustmentIsNoOp ==
    (InTraversal /\ Contiguous(name)) =>
        out = [n \in 1..Len(ReadSoFar) |-> C10_Unadjusted(n)]

\* raw user keys 2 then 1 get the indices 0 then 1: neither is the key less one
C10_Witness ==
    /\ pc = "discover" /\ Contiguous(name) /\ Len(out) = 2
    /\ RawUser(ReadSoFar[1]) = 2 /\ RawUser(ReadSoFar[2]) = 1
    /\ out[1][1] = 0 /\ out[2][1] = 1

----------------------------------------------------------------------------
(* C4 *)

\* C4: in one fetch_data call the fill traversal, run with fresh maps, yields
\* the records the shape-discovery traversal yielded and gives every key the
\* index it had there; a second call on the same archive with the same
\* min_rating returns the same num_users, num_items and num_interactions.
C4_SameMappingBothPasses ==
    /\ (pc \in {"fill", "done"} /\ handle[2] # "none") =>
          /\ Len(out) <= Len(d_out)
          /\ out = SubSeq(d_out, 1, Len(out))
          /\ C2_Kept(user_map, d_user_map)
          /\ C2_Kept(item_map, d_item_map)
    /\ pc = "done" =>
          /\ out = d_out
          /\ user_map = d_user_map
          /\ item_map = d_item_map
    /\ (pc = "done" /\ prev.made /\ prev.min_rating = min_rating) =>
          Summary(result, min_rating) = prev

\* a second call with the same min_rating has returned, on a remapped corpus
\* with two users and at least one interaction
C4_Witness ==
    /\ pc = "done" /\ prev.made /\ prev.min_rating = min_rating
    /\ Contiguous(name)
    /\ Cardinality(DOMAIN user_map) = 2
    /\ NumInteractions(result) > 0

----------------------------------------------------------------------------
(* C6 *)

C6_BadLines == {k \in DataRange : ~FourIntFields(k, Separator(name))}

C6_FirstBad == CHOOSE k \in C6_BadLines : \A j \in C6_BadLines : k <= j

\* C6: a line that does not split into four integer fields on the separator
\* of the corpus makes fetch_data raise at that line, in whichever traversal
\* reaches it: the reader never gets past it, no Dataset is returned, and
\* nothing is returned before fetch_data is done.
C6_AbortAtBadLine ==
    /\ pc = "done" => (C6_BadLines = {} /\ result.built)
    /\ pc # "done" => ~result.built
    /\ (C6_BadLines # {} /\ name \in MOVIELENS_GENERATORS) =>
          /\ pos <= C6_FirstBad
          /\ pos = C6_FirstBad =>
                /\ pc = "raised"
                /\ err \in {"ValueError:unpack", "ValueError:int", "UnicodeDecodeError"}
                /\ err_pos = C6_FirstBad

\* the second line has a field that is no integer, and fetch_data raised there
C6_Witness ==
    /\ pc = "raised" /\ err = "ValueError:int" /\ err_pos = 2
    /\ FourIntFields(1, Separator(name))
    /\ ~result.built

----------------------------------------------------------------------------
(* C7 *)

\* C7: for a name outside the four corpora fetch_data raises the
\* unsupported-dataset ValueError before any generator exists: no archive is
\* opened and no Dataset is returned.
C7_UnsupportedName ==
    name \notin {"movielens_100K", "movielens_1M", "movielens_10M", "movielens_20M"} =>
        /\ pc \in {"start", "raised"}
        /\ pc = "raised" => err = "ValueError:unsupported"
        /\ handle = NoHandles
        /\ ~result.built

C7_Witness == name = "movielens_999K" /\ pc = "raised" /\ err = "ValueError:unsupported"

----------------------------------------------------------------------------
(* C8 *)

\* C8: a call with a min_rating at least that of an earlier call on the same
\* corpus and archive returns at most as many interactions, and the same
\* num_users and num_items.
C8_Monotone ==
    (pc = "done" /\ prev.made /\ prev.min_rating <= min_rating) =>
        /\ NumInteractions(result) <= prev.num_interactions
        /\ NumUsers(result) = prev.num_users
        /\ NumItems(result) = prev.num_items

\* raising min_rating removed one interaction and kept another
C8_Witness ==
    /\ pc = "done" /\ prev.made /\ prev.min_rating < min_rating
    /\ NumInteractions(result) = 1
    /\ prev.num_interactions = 2

----------------------------------------------------------------------------
(* C1 *)

\* the separator the entry of each corpus is written with
C1_FormatSep(n) ==
    IF n = CORPUS_100K THEN "tab" ELSE IF n = CORPUS_20M THEN "," ELSE "::"

\* the entry is a record stream of the corpus: its header line, if the corpus
\* has one, and then lines of four integer fields
C1_RecordStream ==
    /\ name \in MOVIELENS_GENERATORS
    /\ entry_sep = C1_FormatSep(name)
    /\ name = CORPUS_20M => (Len(archive) >= 1 /\ archive[1] = Header)
    /\ \A k \in DataRange : archive[k][1] = "data"

\* the index the user key (item key) of line k maps to
C1_UserIndex(k) ==
    IF Contiguous(name)
    THEN Rank(FirstSeen(UserColumn, [j \in 1..Len(archive) - HeaderSkip(name) |->
                                        HeaderSkip(name) + j], <<>>), RawUser(k))
    ELSE RawUser(k) - 1
C1_ItemIndex(k) ==
    IF Contiguous(name)
    THEN Rank(FirstSeen(ItemColumn, [j \in 1..Len(archive) - HeaderSkip(name) |->
                                        HeaderSkip(name) + j], <<>>), RawItem(k))
    ELSE RawItem(k) - 1

C1_MatrixIsThreshold ==
    /\ result.built
    /\ \A e \in result.interactions.entries : e[3] \in {0, 1}
    /\ \A u \in 0..(result.interactions.shape[1] - 1),
          i \in 0..(result.interactions.shape[2] - 1) :
          Cell(result, u, i) = 1 <=>
             \E k \in DataRange : /\ C1_UserIndex(k) = u
                                  /\ C1_ItemIndex(k) = i
                                  /\ RawRating(k) >= min_rating
    /\ \A k \in DataRange :
          /\ C1_UserIndex(k) \in 0..(result.interactions.shape[1] - 1)
          /\ C1_ItemIndex(k) \in 0..(result.interactions.shape[2] - 1)

\* C1: on every record stream of every supported corpus and for every
\* min_rating, fetch_data does not raise and returns a Dataset whose matrix
\* holds 0 and 1 only, with 1 exactly at the (user index, item index) pairs
\* that have a rating >= min_rating.
C1_AlwaysADataset ==
    C1_RecordStream =>
        /\ pc # "raised"
        /\ pc = "done" => C1_MatrixIsThreshold

----------------------------------------------------------------------------
(* C3 *)

\* C3: for every corpus and every non-empty record stream the Dataset has
\* user_ids = {0..num_users-1} and item_ids = {0..num_items-1}, and the
\* matrix shape is (num_users, num_items).
C3_ContiguousIds ==
    (pc = "done" /\ DataRange # {}) =>
        /\ result.user_ids = 0..(NumUsers(result) - 1)
        /\ result.item_ids = 0..(NumItems(result) - 1)
        /\ NumUsers(result) = Max(result.user_ids) + 1
        /\ NumItems(result) = Max(result.item_ids) + 1
        /\ result.interactions.shape = <<NumUsers(result), NumItems(result)>>

----------------------------------------------------------------------------
(* C5 *)

C5_Entry20M ==
    /\ name = CORPUS_20M
    /\ entry_sep = ","
    /\ Len(archive) >= 1
    /\ archive[1] = Header
    /\ \A k \in 2..Len(archive) : archive[k][1] = "data"

\* C5: on a 20M entry (a header line, then comma-separated lines) the record
\* stream skips the first line only, turns every following line into one
\* record, and raises no malformed-line error.
C5_HeaderThenCommaLines ==
    C5_Entry20M =>
        /\ err \notin {"ValueError:unpack", "ValueError:int"}
        /\ \A k \in 1..Len(archive) :
              (pc \in {"discover", "fill"} /\ handle[Phase] = "open" /\ pos = k) =>
                  /\ Len(out) = k - 1
                  /\ \A n \in 1..Len(out) :
                        /\ out[n][3] = RawRating(n + 1)
                        /\ out[n][4] = RawStamp(n + 1)

----------------------------------------------------------------------------
(* C9 *)

\* C9: the archive handle of a traversal is released on every way out of the
\* traversal (exhaustion, a decode or parse failure, a consumer that stops),
\* and the handle of the first traversal is released before the second
\* traversal opens its own, so that at most one is open at a time.
C9_HandleReleased ==
    /\ pc \in {"raised", "done"} => \A k \in 1..2 : handle[k] # "open"
    /\ ~(handle[1] = "open" /\ handle[2] = "open")
    /\ handle[2] # "none" => handle[1] = "closed"

====
